---- MODULE Spec2Model ----
(***************************************************************************)
(* A model of the OpenRCA query generator                                  *)
(* (src/steps/04_query_generation/inputs/query_generator.py).              *)
(*                                                                         *)
(* Text is modelled as a sequence of tokens.  A token is a record          *)
(* [s |-> string, d |-> sequence of integers]: a piece of literal text has *)
(* d = <<>>, a formatted number or time carries its fields in d.  A format *)
(* template is a sequence of literal pieces and replacement fields.        *)
(***************************************************************************)
EXTENDS Integers, Sequences, FiniteSets, TLC

\* ------------------------------------------------------------------ bounds

\* Rows a ground-truth table holds in the pure-function specification.
MaxRows == 3

\* Rows of all dataset files together in the program specification.
MaxRecords == 2

\* ------------------------------------------------------- program constants

\* 30 minutes = 1800 seconds.
WindowSeconds == 1800

\* pytz.timezone('Asia/Shanghai'): UTC+8, as seconds.
UtcOffset == 28800

\* for attempt in range(3)
RetryLimit == 3

\* if attempt == 2
LastAttempt == 2

\* len(dataset_configs)
NumDatasets == 4

\* ------------------------------------------------------------------- text

Txt(s) == [s |-> s, d |-> <<>>]

Num(n) == [s |-> "int", d |-> <<n>>]

Lit(s) == [k |-> "lit", s |-> s]

Fld(s) == [k |-> "key", s |-> s]

\* The line separator the source writes: a backslash followed by n.
NL == Txt("\\n")

UNKNOWN == Txt("**UNKNOWN**")

\* The code fence of a specification block: three backquotes.
Fence == Txt("<fence>")

Whitespace == {" ", "\t", "\n", "\r"}

IsSpace(tok) == tok.d = <<>> /\ tok.s \in Whitespace

Min(S) == CHOOSE x \in S : \A y \in S : x <= y

RECURSIVE Flatten(_)
Flatten(texts) ==
    IF texts = <<>> THEN <<>> ELSE Head(texts) \o Flatten(Tail(texts))

\* sep.join(texts)
RECURSIVE Join(_, _)
Join(sep, texts) ==
    IF texts = <<>> THEN <<>>
    ELSE IF Len(texts) = 1 THEN Head(texts)
    ELSE Head(texts) \o sep \o Join(sep, Tail(texts))

\* str.strip(): leading and trailing whitespace removed.
RECURSIVE LStrip(_)
LStrip(text) ==
    IF text # <<>> /\ IsSpace(Head(text)) THEN LStrip(Tail(text)) ELSE text

RECURSIVE RStrip(_)
RStrip(text) ==
    IF text # <<>> /\ IsSpace(text[Len(text)])
    THEN RStrip(SubSeq(text, 1, Len(text) - 1))
    ELSE text

Strip(text) == RStrip(LStrip(text))

\* A mutant: a replacement field kwargs does not supply is rendered as
\* nothing.
Format_Lenient(template, kwargs) ==
    [ok |-> TRUE,
     text |-> [i \in DOMAIN template |->
                 IF template[i].k = "lit" THEN Txt(template[i].s)
                 ELSE IF template[i].s \in DOMAIN kwargs
                      THEN kwargs[template[i].s]
                      ELSE Txt("")],
     key |-> ""]

\* str.format on one template: the rendered text, or the KeyError
\* of the first replacement field kwargs does not supply.
Format(template, kwargs) ==
    LET missing == {i \in DOMAIN template :
                        /\ template[i].k = "key"
                        /\ template[i].s \notin DOMAIN kwargs}
    IN  IF missing = {}
        THEN [ok |-> TRUE,
              text |-> [i \in DOMAIN template |->
                          IF template[i].k = "key"
                          THEN kwargs[template[i].s]
                          ELSE Txt(template[i].s)],
              key |-> ""]
        ELSE [ok |-> FALSE, text |-> <<>>, key |-> template[Min(missing)].s]

\* The list of the renders of every template, or the first error.
FormatAll(templates, kwargs) ==
    LET rs == [i \in DOMAIN templates |-> Format(templates[i], kwargs)]
        bad == {i \in DOMAIN templates : ~rs[i].ok}
    IN  IF bad = {}
        THEN [ok |-> TRUE, texts |-> [i \in DOMAIN templates |-> rs[i].text],
              key |-> ""]
        ELSE [ok |-> FALSE, texts |-> <<>>, key |-> rs[Min(bad)].key]

\* ------------------------------------------------------------ time bucketer

\* pandas reads a timestamp cell that is empty or one of its spellings of a
\* missing value (NA, N/A, null, NaN, ...) as the float NaN.  The model
\* writes NaN as a number no timestamp has; arithmetic on it gives NaN and
\* every comparison with it is false.
NaN == -2147483647

\* a > b of numbers either of which can be NaN
Greater(a, b) == a # NaN /\ b # NaN /\ a > b

\* a < b of numbers either of which can be NaN
Less(a, b) == a # NaN /\ b # NaN /\ a < b

\* a == b of numbers either of which can be NaN
Equal(a, b) == a # NaN /\ b # NaN /\ a = b

\* A mutant: the quotient is cut toward zero.
Window_TowardZero(timestamp) ==
    IF timestamp >= 0 THEN timestamp \div WindowSeconds
    ELSE -((-timestamp) \div WindowSeconds)

\* timestamp // 1800
Window(timestamp) ==
    IF timestamp = NaN THEN NaN ELSE timestamp \div WindowSeconds

\* The periods of daylight time of Asia/Shanghai from 1986 to 1991, each from
\* its first second to the first second after it.  The daylight periods before
\* 1950 and local mean time before 1901 are left out: no timestamp of the
\* model is that early.
DaylightPeriods ==
    << <<515527200, 527014800>>, <<545162400, 558464400>>,
       <<577216800, 589914000>>, <<608666400, 621968400>>,
       <<640116000, 653418000>>, <<671565600, 684867600>> >>

\* Daylight time is one hour ahead of standard time.
DaylightShift == 3600

\* self.timezone.utcoffset at an instant
UtcOffsetAt(timestamp) ==
    IF \E i \in DOMAIN DaylightPeriods :
          /\ DaylightPeriods[i][1] <= timestamp
          /\ timestamp < DaylightPeriods[i][2]
    THEN UtcOffset + DaylightShift
    ELSE UtcOffset

\* datetime.fromtimestamp(timestamp, self.timezone): the wall-clock fields
\* <<day number, hour, minute, second>> of the zone, UTC+8 in standard time.
LocalTime(timestamp) ==
    LET local == timestamp + UtcOffsetAt(timestamp)
        sod   == local % 86400
    IN  <<local \div 86400, sod \div 3600, (sod % 3600) \div 60, sod % 60>>

\* strftime('%Y-%m-%d %H:%M:%S') of wall-clock fields
Strftime(t) == [s |-> "datetime", d |-> t]

timestamp2datetime(timestamp) == Strftime(LocalTime(timestamp))

\* start_time + timedelta(minutes=30): the wall-clock fields move on by half
\* an hour, the offset of start_time is kept.
AddHalfHour(t) ==
    LET secs == t[1] * 86400 + t[2] * 3600 + t[3] * 60 + t[4] + 1800
        sod  == secs % 86400
    IN  <<secs \div 86400, sod \div 3600, (sod % 3600) \div 60, sod % 60>>

timestamp2timeperiod(timestamp) ==
    LET time       == LocalTime(timestamp)
        minute     == time[3]
        start_time == <<time[1], time[2], minute - (minute % 30), 0>>
        end_time   == AddHalfHour(start_time)
    IN  [s |-> "period", d |-> start_time \o end_time]

\* -------------------------------------------------------- conflict detector

\* dict[key] = value
Put(dict, key, value) ==
    [x \in DOMAIN dict \cup {key} |-> IF x = key THEN value ELSE dict[x]]

\* meta_data['timestamp']
TimestampColumn(meta_data) ==
    [i \in DOMAIN meta_data |-> meta_data[i].timestamp]

\* sorted(meta_data['timestamp'])
Sorted(column) == SortSeq(column, Less)

\* A mutant: the position before, not the timestamp at it.
Previous_Index(sorted_time, i) == i - 2

\* sorted_time[i - 1] for the 0-based position i - 1 of the 1-based position
\* i: Python's index -1 is the last element.
Previous(sorted_time, i) ==
    IF i = 1 THEN sorted_time[Len(sorted_time)] ELSE sorted_time[i - 1]

\* A mutant: the preceding timestamp is not flagged.
BackFix_Skipped(flag, sorted_time, i) == flag

\* half_hour_conflict_failure_flag[sorted_time[i - 1]] = True
BackFix(flag, sorted_time, i) == Put(flag, Previous(sorted_time, i), TRUE)

\* The loop of get_half_hour_conflict_failure_flag from position i on.
RECURSIVE ConflictLoop(_, _, _, _)
ConflictLoop(sorted_time, i, flag, previous_failure_timestamp) ==
    IF i > Len(sorted_time) THEN flag
    ELSE LET timestamp == sorted_time[i]
             current_failure_timestamp_left == Window(timestamp)
         IN  IF Greater(current_failure_timestamp_left,
                        previous_failure_timestamp)
             THEN ConflictLoop(sorted_time, i + 1,
                               Put(flag, timestamp, FALSE),
                               current_failure_timestamp_left)
             ELSE ConflictLoop(sorted_time, i + 1,
                               BackFix(Put(flag, timestamp, TRUE),
                                       sorted_time, i),
                               previous_failure_timestamp)

get_half_hour_conflict_failure_flag(meta_data) ==
    ConflictLoop(Sorted(TimestampColumn(meta_data)), 1, <<>>, 0)

\* -------------------------------------------------- multi-response aggregator

\* A mutant: candidates are matched on the timestamp, not on its window.
SameWindow_ExactTimestamp(cand, row) == cand.timestamp = row.timestamp

\* meta_data['timestamp']//1800 == row['timestamp']//1800
SameWindow(cand, row) ==
    Equal(Window(cand.timestamp), Window(row.timestamp))

\* The loop of get_multi_response_dict over meta_data from position i on.
RECURSIVE MultiLoop(_, _, _, _, _)
MultiLoop(row, meta_data, i, num, multi_dict) ==
    IF i > Len(meta_data) THEN [num |-> num, ans |-> multi_dict]
    ELSE LET cand == meta_data[i]
         IN  IF SameWindow(cand, row)
             THEN MultiLoop(row, meta_data, i + 1, num + 1,
                    [datetime  |-> Append(multi_dict.datetime,
                                          timestamp2datetime(cand.timestamp)),
                     component |-> Append(multi_dict.component,
                                          cand.component),
                     reason    |-> Append(multi_dict.reason, cand.reason)])
             ELSE MultiLoop(row, meta_data, i + 1, num, multi_dict)

get_multi_response_dict(row, meta_data) ==
    MultiLoop(row, meta_data, 1, 0,
              [datetime |-> <<>>, component |-> <<>>, reason |-> <<>>])

\* ---------------------------------------------------- scoring-point synthesis

\* f'{i+1}-th' for the 0-based i
IdxLabel(i) == [s |-> "-th", d |-> <<i + 1>>]

\* The multi-failure branch: scoring_points after the loop over range(num)
\* from the 0-based i on, or the KeyError of the first failing render with
\* the text built before it.
RECURSIVE MultiScoring(_, _, _, _, _)
MultiScoring(scoring_points_template, num, ans, i, scoring_points) ==
    IF i >= num THEN [ok |-> TRUE, text |-> scoring_points, key |-> ""]
    ELSE LET filled == FormatAll(scoring_points_template,
                         [idx       |-> IdxLabel(i),
                          datetime  |-> ans.datetime[i + 1],
                          reason    |-> Txt(ans.reason[i + 1]),
                          component |-> Txt(ans.component[i + 1])])
         IN  IF ~filled.ok
             THEN [ok |-> FALSE, text |-> scoring_points, key |-> filled.key]
             ELSE MultiScoring(scoring_points_template, num, ans, i + 1,
                    scoring_points \o Join(<<NL>>, filled.texts) \o <<NL>>)

\* The loop of the single-failure branch: each template rendered with kwargs and
\* followed by the line separator.
RECURSIVE SingleLoop(_, _, _)
SingleLoop(templates, kwargs, scoring_points) ==
    IF templates = <<>> THEN [ok |-> TRUE, text |-> scoring_points, key |-> ""]
    ELSE LET r == Format(Head(templates), kwargs)
         IN  IF ~r.ok
             THEN [ok |-> FALSE, text |-> scoring_points, key |-> r.key]
             ELSE SingleLoop(Tail(templates), kwargs,
                             scoring_points \o r.text \o <<NL>>)

\* A mutant: the component and the reason are taken for each other.
SingleScoring_Swapped(templates, time_period, datetime_str, component, reason) ==
    SingleLoop(templates,
               [idx         |-> Txt("only"),
                time_period |-> time_period,
                datetime    |-> datetime_str,
                component   |-> Txt(reason),
                reason      |-> Txt(component)],
               <<>>)

\* The single-failure branch, lines 217-227.
SingleScoring(templates, time_period, datetime_str, component, reason) ==
    SingleLoop(templates,
               [idx         |-> Txt("only"),
                time_period |-> time_period,
                datetime    |-> datetime_str,
                component   |-> Txt(component),
                reason      |-> Txt(reason)],
               <<>>)

\* ------------------------------------------------------ specification blocks

NoneValue == [none |-> TRUE, text |-> ""]

Some(text) == [none |-> FALSE, text |-> text]

\* Python's truth value of None or a string
Truthy(v) == ~v.none /\ v.text # ""

\* One bullet per template: a dash, the rendered template, a line separator.
RECURSIVE BulletLoop(_, _, _)
BulletLoop(templates, kwargs, specification) ==
    IF templates = <<>>
    THEN [ok |-> TRUE, text |-> specification, key |-> ""]
    ELSE LET r == Format(Head(templates), kwargs)
         IN  IF ~r.ok
             THEN [ok |-> FALSE, text |-> specification \o <<Txt("- ")>>,
                   key |-> r.key]
             ELSE BulletLoop(Tail(templates), kwargs,
                    specification \o <<Txt("- ")>> \o r.text \o <<NL>>)

\* A mutant: the extra specification is left out.
InputSpecification_NoExtra(input_templates, num, time_period, extra_spec) ==
    LET r == BulletLoop(input_templates,
                        [num |-> Num(num), time_period |-> time_period],
                        <<Fence, Txt("known"), NL>>)
    IN  IF ~r.ok THEN r
        ELSE [ok |-> TRUE, text |-> Strip(r.text) \o <<NL, Fence>>,
              key |-> ""]

\* The input block, lines 229-241.
InputSpecification(input_templates, num, time_period, extra_spec) ==
    LET r == BulletLoop(input_templates,
                        [num |-> Num(num), time_period |-> time_period],
                        <<Fence, Txt("known"), NL>>)
        extra == IF Truthy(extra_spec)
                 THEN <<Txt("- "), Txt(extra_spec.text), NL>>
                 ELSE <<>>
    IN  IF ~r.ok THEN r
        ELSE [ok |-> TRUE,
              text |-> Strip(r.text \o extra) \o <<NL, Fence>>,
              key |-> ""]

\* A mutant: the output block is rendered with the record own values.
OutputSpecification_GroundTruth(output_templates, time_period, datetime_str, component, reason) ==
    LET r == BulletLoop(output_templates,
                        [time_period |-> time_period,
                         datetime    |-> datetime_str,
                         component   |-> Txt(component),
                         reason      |-> Txt(reason)],
                        <<Fence, Txt("query"), NL>>)
    IN  IF ~r.ok THEN r
        ELSE [ok |-> TRUE, text |-> Strip(r.text) \o <<NL, Fence>>,
              key |-> ""]

\* The output block, built where the time_period of the record, datetime_str,
\* component and reason are in scope.
OutputSpecification(output_templates, time_period, datetime_str, component, reason) ==
    LET r == BulletLoop(output_templates,
                        [time_period |-> UNKNOWN,
                         datetime    |-> UNKNOWN,
                         component   |-> UNKNOWN,
                         reason      |-> UNKNOWN],
                        <<Fence, Txt("query"), NL>>)
    IN  IF ~r.ok THEN r
        ELSE [ok |-> TRUE, text |-> Strip(r.text) \o <<NL, Fence>>,
              key |-> ""]

\* ------------------------------------------------------------------ inputs

Rec(t, c, r) == [timestamp |-> t, component |-> c, reason |-> r]

\* The records the dataset files of the program specification are made of.
ScanPool == {Rec(100, "c1", "r1"), Rec(2000, "c2", "r2")}

\* The records of the pure-function specification: duplicates of one
\* timestamp, three records of one window, a negative timestamp.
PurePool ==
    ScanPool \cup {Rec(200, "c2", "r3"), Rec(100, "c3", "r2"),
                   Rec(3599, "c3", "r1"), Rec(3600, "c1", "r3"),
                   Rec(-100, "c2", "r3")}

Tables(pool, n) == UNION {[1..k -> pool] : k \in 0..n}

Task(id, input, output, scoring_points) ==
    [id |-> id, input |-> input, output |-> output,
     scoring_points |-> scoring_points]

Task1 ==
    Task("task_1",
         << <<Lit("failures: "), Fld("num")>>,
            <<Lit("window: "), Fld("time_period")>> >>,
         << <<Lit("time: "), Fld("datetime")>> >>,
         << <<Lit("The "), Fld("idx"), Lit(" time is "), Fld("datetime")>> >>)

Task2 ==
    Task("task_2",
         << <<Fld("num"), Lit(" failures in "), Fld("time_period")>> >>,
         << <<Lit("component: "), Fld("component")>>,
            <<Lit("reason: "), Fld("reason")>> >>,
         << <<Fld("idx"), Lit(" component is "), Fld("component")>>,
            <<Fld("idx"), Lit(" reason is "), Fld("reason")>> >>)

\* Scoring points that name the time window.
Task3 ==
    Task("task_3",
         << <<Lit("window: "), Fld("time_period")>> >>,
         << <<Lit("time: "), Fld("datetime")>>,
            <<Lit("reason: "), Fld("reason")>> >>,
         << <<Fld("idx"), Lit(" reason in "), Fld("time_period"),
              Lit(" is "), Fld("reason")>> >>)

\* No scoring points.
Task4 ==
    Task("task_4",
         << <<Lit("window: "), Fld("time_period")>> >>,
         << <<Lit("component: "), Fld("component")>> >>,
         <<>>)

\* An input template that names a field the input render does not supply.
Task5 ==
    Task("task_5",
         << <<Lit("component: "), Fld("component")>> >>,
         << <<Lit("reason: "), Fld("reason")>> >>,
         << <<Fld("idx"), Lit(" reason is "), Fld("reason")>> >>)

\* An output template that names a field the output render does not supply.
Task6 ==
    Task("task_6",
         << <<Lit("window: "), Fld("time_period")>> >>,
         << <<Fld("num"), Lit(" components")>> >>,
         << <<Fld("idx"), Lit(" component is "), Fld("component")>> >>)

\* The task specification file of the program specification, in key order.
ScanTemplates == <<Task2, Task3>>

\* The task specification file of the pure-function specification.
PureTemplates == <<Task1, Task2, Task3, Task4>>

\* A task specification file with templates that cannot be rendered.
FaultTemplates == <<Task3, Task5, Task6>>

\* A cell of the timestamp column as a record file has it: a number, a
\* spelling of a missing value, or other text.
CellInt(n) == [kind |-> "int", n |-> n]

CellNA == [kind |-> "na", n |-> 0]

CellText == [kind |-> "text", n |-> 0]

FileRow(cell, c, r) == [timestamp |-> cell, component |-> c, reason |-> r]

\* The rows of the record files that have a cell that is not a number.
MalformedPool ==
    {FileRow(CellText, "c1", "r1"), FileRow(CellNA, "c2", "r2"),
     FileRow(CellInt(2000), "c2", "r2")}

\* The dtype pd.read_csv gives the timestamp column: text when a cell is
\* text, float when a cell is missing, else integer.
ColumnDtype(file) ==
    IF \E i \in DOMAIN file : file[i].timestamp.kind = "text" THEN "object"
    ELSE IF \E i \in DOMAIN file : file[i].timestamp.kind = "na"
         THEN "float64"
         ELSE "int64"

\* pd.read_csv(record_path) of a file whose timestamp column is numeric
read_csv(file) ==
    [i \in DOMAIN file |->
        Rec(IF file[i].timestamp.kind = "na" THEN NaN
            ELSE file[i].timestamp.n,
            file[i].component, file[i].reason)]

\* What one call of the LLM collaborator can give.
Responses ==
    {"raise", "not_json", "no_issue", "issue_null", "issue_empty",
     "issue_text"}

\* The exception an attempt ends with, lines 269-271.
AttemptError(r) ==
    IF r = "raise" THEN [type |-> "APIError", arg |-> ""]
    ELSE IF r = "not_json" THEN [type |-> "JSONDecodeError", arg |-> ""]
    ELSE [type |-> "KeyError", arg |-> "issue"]

AttemptFails(r) == r \in {"raise", "not_json", "no_issue"}

\* instruction_data['issue'] of a response that parses and has the field
IssueOf(r) ==
    IF r = "issue_null" THEN NoneValue
    ELSE IF r = "issue_empty" THEN Some("")
    ELSE Some("instruction")

KeyError(key) == [type |-> "KeyError", arg |-> key]

\* datetime.fromtimestamp of NaN, line 118
ValueError == [type |-> "ValueError", arg |-> "NaN"]

dataset_configs ==
    << [name |-> "Telecom", extra_spec |-> NoneValue],
       [name |-> "Bank", extra_spec |-> NoneValue],
       [name |-> "Market/cloudbed-1",
        extra_spec |-> Some("system: cloudbed-1")],
       [name |-> "Market/cloudbed-2",
        extra_spec |-> Some("system: cloudbed-2")] >>

\* ------------------------------------------------------------------- state

VARIABLES
    pc,                 \* where the program is
    task_templates,     \* self.task_templates, in key order
    random_stream,      \* what random.choice draws after random.seed(42)
    random_pos,         \* draws made so far
    generation_stats,   \* self.generation_stats
    ds,                 \* position in dataset_configs
    all_stats,          \* generate_all_queries: all_stats
    written,            \* every df.to_csv so far, in order
    exit_code,          \* main: the argument of sys.exit
    meta_data,          \* the ground-truth table of the dataset
    extra_spec,
    half_hour_conflict_failure_flag,
    df,                 \* the output table
    df_source,          \* for each row of df, the idx of the record it is of
    dataset_stats,
    idx,                \* the record the scan is at, counted from 0
    task_index,
    num,
    ans,
    scoring_points,
    input_specification,
    output_specification,
    attempt,
    response,           \* what the last call for this record gave
    instruction,
    result,             \* what a function called on its own returned
    validation_results  \* APIConfigValidator: self.validation_results

vars ==
    <<pc, task_templates, random_stream, random_pos, generation_stats, ds,
      all_stats, written, exit_code, meta_data, extra_spec,
      half_hour_conflict_failure_flag, df, df_source, dataset_stats, idx,
      task_index, num, ans, scoring_points, input_specification,
      output_specification, attempt, response, instruction, result,
      validation_results>>

globals ==
    <<task_templates, random_stream, generation_stats, ds, all_stats,
      written, exit_code, result, validation_results>>

locals ==
    <<task_index, num, ans, scoring_points, input_specification,
      output_specification, attempt, response, instruction>>

\* list(self.task_templates.keys())
full_task_ID_list == [i \in DOMAIN task_templates |-> task_templates[i].id]

\* self.task_templates[task_index]
TemplateOf(id) ==
    task_templates[CHOOSE i \in DOMAIN task_templates :
                       task_templates[i].id = id]

EmptyAns == [datetime |-> <<>>, component |-> <<>>, reason |-> <<>>]

NoStats ==
    [dataset_name |-> "", total_records |-> 0, queries_generated |-> 0,
     multi_failure_queries |-> 0, task_distribution |-> <<>>,
     generation_errors |-> <<>>]

\* The variables of the loop body hold nothing.
NoRecord ==
    /\ task_index = ""
    /\ num = 0
    /\ ans = EmptyAns
    /\ scoring_points = <<>>
    /\ input_specification = <<>>
    /\ output_specification = <<>>
    /\ attempt = 0
    /\ response = ""
    /\ instruction = NoneValue

\* The loop body is left.  Each of its variables is assigned again before
\* the next iteration reads it, so the value it keeps is never seen: the
\* model clears them.  What the last call of the collaborator gave stays
\* until the next record begins.
EndRecord ==
    /\ task_index' = ""
    /\ num' = 0
    /\ ans' = EmptyAns
    /\ scoring_points' = <<>>
    /\ input_specification' = <<>>
    /\ output_specification' = <<>>
    /\ attempt' = 0
    /\ instruction' = NoneValue

\* No call of generate_queries_for_dataset is active: its arguments and
\* local variables hold nothing.
FrameDiscarded ==
    /\ extra_spec = NoneValue
    /\ half_hour_conflict_failure_flag = <<>>
    /\ df = <<>>
    /\ df_source = <<>>
    /\ dataset_stats = NoStats
    /\ idx = 0
    /\ NoRecord

\* generate_queries_for_dataset returns: its frame is gone.
DiscardFrame ==
    /\ meta_data' = <<>>
    /\ extra_spec' = NoneValue
    /\ half_hour_conflict_failure_flag' = <<>>
    /\ df' = <<>>
    /\ df_source' = <<>>
    /\ dataset_stats' = NoStats
    /\ idx' = 0
    /\ response' = ""
    /\ UNCHANGED <<task_index, num, ans, scoring_points, input_specification,
                   output_specification, attempt, instruction>>

\* The state of a generator after __init__, lines 22-38, before any call.
InitGenerator ==
    /\ random_pos = 0
    /\ generation_stats =
         [total_queries |-> 0, successful_generations |-> 0,
          failed_generations |-> 0, task_distribution |-> <<>>,
          datasets_processed |-> <<>>, multi_failure_queries |-> 0]
    /\ all_stats = <<>>
    /\ written = <<>>
    /\ exit_code = -1
    /\ result = [ok |-> TRUE, text |-> <<>>, key |-> ""]
    /\ validation_results = <<>>      \* no validator is made
    /\ FrameDiscarded

\* ----------------------------------------------------------------- program

RECURSIVE SumRecords(_)
SumRecords(stats) ==
    IF stats = <<>> THEN 0
    ELSE Head(stats).total_records + SumRecords(Tail(stats))

\* The record files hold at most MaxRecords records in all.
RecordsLeft == MaxRecords - SumRecords(all_stats)

\* What the record file of the next dataset can hold: a file that exists
\* holds a record or more.
RecordFiles == Tables(ScanPool, RecordsLeft) \ {<<>>}

Init ==
    /\ InitGenerator
    /\ pc = "loop"
    /\ ds = 1
    /\ task_templates = ScanTemplates
    /\ random_stream \in [1..MaxRecords -> 1..Len(ScanTemplates)]
    /\ meta_data = <<>>

\* generate_all_queries: the record file of the dataset is not there.
SkipDataset ==
    /\ pc = "loop"
    /\ ds <= NumDatasets
    /\ ds' = ds + 1
    /\ UNCHANGED <<pc, task_templates, random_stream, random_pos,
                   generation_stats, all_stats, written, exit_code, result,
                   meta_data, extra_spec, half_hour_conflict_failure_flag,
                   df, df_source, dataset_stats, idx>>
    /\ UNCHANGED locals
    /\ UNCHANGED validation_results

\* generate_queries_for_dataset from the table read to the top of the scan:
\* the conflicts are flagged, the output table and the statistics set up.
EnterDataset(table) ==
    /\ meta_data' = table
    /\ half_hour_conflict_failure_flag' =
         get_half_hour_conflict_failure_flag(table)
    /\ dataset_stats' =
         [dataset_name |-> dataset_configs[ds].name,
          total_records |-> Len(table),
          queries_generated |-> 0,
          multi_failure_queries |-> 0,
          task_distribution |->
              [t \in {full_task_ID_list[i] : i \in DOMAIN full_task_ID_list}
                  |-> 0],
          generation_errors |-> <<>>]
    /\ extra_spec' = dataset_configs[ds].extra_spec
    /\ df' = <<>>
    /\ df_source' = <<>>
    /\ idx' = 0
    /\ pc' = "scan"
    /\ UNCHANGED <<globals, random_pos>>
    /\ UNCHANGED locals

\* generate_all_queries calls generate_queries_for_dataset, which reads the
\* table, flags the conflicts and sets up the output table and statistics.
StartDataset ==
    /\ pc = "loop"
    /\ ds <= NumDatasets
    /\ \E table \in RecordFiles : EnterDataset(table)

\* The record files with a timestamp cell that is not a number, of the
\* records left.
MalformedFiles ==
    {file \in Tables(MalformedPool, RecordsLeft) :
        ColumnDtype(file) # "int64"}

\* main: except Exception, sys.exit(1)
FailureExit == 1

\* generate_queries_for_dataset on a record file with a timestamp cell that
\* is not a number.  In a column of text the first timestamp // 1800 of the
\* conflict detection raises TypeError, which no handler before that of main
\* catches; a column with missing values is a column of floats and is
\* scanned.
StartMalformedDataset ==
    /\ pc = "loop"
    /\ ds <= NumDatasets
    /\ \E file \in MalformedFiles :
         IF ColumnDtype(file) = "object"
         THEN /\ exit_code' = FailureExit
              /\ pc' = "exit"
              /\ UNCHANGED <<task_templates, random_stream, random_pos,
                             generation_stats, ds, all_stats, written,
                             result, validation_results, meta_data, extra_spec,
                             half_hour_conflict_failure_flag, df, df_source,
                             dataset_stats, idx>>
              /\ UNCHANGED locals
         ELSE EnterDataset(read_csv(file))

\* A mutant: the draw taken is the one after those that gave a row.
random_choice_AfterRows(seq) == seq[random_stream[Len(df) + 1]]

\* random.choice(seq): the next draw of the generator seeded in __init__
random_choice(seq) == seq[random_stream[random_pos + 1]]

\* The body of the try block of one record up to the prompt.
RecordBody(row, task) ==
    LET timestamp    == row.timestamp
        datetime_str == timestamp2datetime(timestamp)
        time_period  == timestamp2timeperiod(timestamp)
        flagged      == half_hour_conflict_failure_flag[timestamp]
        m            == get_multi_response_dict(row, meta_data)
        n            == IF flagged THEN m.num ELSE 1
        sc == IF flagged
              THEN MultiScoring(TemplateOf(task).scoring_points,
                                m.num, m.ans, 0, <<>>)
              ELSE SingleScoring(TemplateOf(task).scoring_points, time_period,
                                 datetime_str, row.component, row.reason)
    IN  [flagged |-> flagged,
         num |-> n,
         ans |-> IF flagged THEN m.ans ELSE ans,
         sc  |-> sc,
         inp |-> InputSpecification(TemplateOf(task).input, n, time_period,
                                    extra_spec),
         out |-> OutputSpecification(TemplateOf(task).output, time_period,
                                     datetime_str, row.component, row.reason)]

\* f"Record {idx}: {str(e)}"
ErrorMsg(i, e) == [record |-> i, error |-> e]

\* A mutant: the entry is appended twice.
WithError_Twice(stats, i, e) ==
    [stats EXCEPT !.generation_errors =
        Append(Append(@, [record |-> i, error |-> e]),
               [record |-> i, error |-> e])]

\* dataset_stats["generation_errors"].append(...)
WithError(stats, i, e) ==
    [stats EXCEPT !.generation_errors = Append(@, ErrorMsg(i, e))]

\* One record from the top of the loop to the first call of the collaborator;
\* a template that cannot be rendered ends the record in the outer handler.
\* The prompt is the two specification blocks in the fixed system and user
\* texts of prompt_templates; the model keeps the blocks.
BeginRecord ==
    /\ pc = "scan"
    /\ idx < Len(meta_data)
    /\ meta_data[idx + 1].timestamp # NaN
    /\ LET row    == meta_data[idx + 1]
           task   == random_choice(full_task_ID_list)
           b      == RecordBody(row, task)
           stats1 == [dataset_stats EXCEPT
                        !.task_distribution[task] = @ + 1,
                        !.multi_failure_queries =
                            IF b.flagged THEN @ + 1 ELSE @]
           failed == IF ~b.sc.ok THEN b.sc.key
                     ELSE IF ~b.inp.ok THEN b.inp.key
                     ELSE IF ~b.out.ok THEN b.out.key
                     ELSE ""
       IN  /\ random_pos' = random_pos + 1
           /\ IF failed # ""
              THEN /\ dataset_stats' = WithError(stats1, idx, KeyError(failed))
                   /\ idx' = idx + 1
                   /\ pc' = "scan"
                   /\ response' = ""
                   /\ EndRecord
              ELSE /\ dataset_stats' = stats1
                   /\ task_index' = task
                   /\ num' = b.num
                   /\ ans' = b.ans
                   /\ scoring_points' = b.sc.text
                   /\ input_specification' = b.inp.text
                   /\ output_specification' = b.out.text
                   /\ instruction' = NoneValue
                   /\ attempt' = 0
                   /\ response' = ""
                   /\ pc' = "llm"
                   /\ idx' = idx
    /\ UNCHANGED <<globals, meta_data, extra_spec,
                   half_hour_conflict_failure_flag, df, df_source>>

\* One record whose timestamp is NaN: timestamp2datetime raises ValueError
\* at the top of the try block, before the task is drawn, and the outer
\* handler ends the record.
BeginRecordNaN ==
    /\ pc = "scan"
    /\ idx < Len(meta_data)
    /\ meta_data[idx + 1].timestamp = NaN
    /\ dataset_stats' = WithError(dataset_stats, idx, ValueError)
    /\ idx' = idx + 1
    /\ response' = ""
    /\ EndRecord
    /\ UNCHANGED <<globals, random_pos, pc, meta_data, extra_spec,
                   half_hour_conflict_failure_flag, df, df_source>>

\* A mutant: the new row is put in front of the table.
AppendRow_InFront(table, row) == <<row>> \o table

\* df = pd.concat([df, new_df], ignore_index=True)
AppendRow(table, row) == Append(table, row)

\* A mutant: one more attempt.
Attempts_OneMore == RetryLimit + 1

\* range(3)
Attempts == RetryLimit

\* One call of the collaborator and what follows it: the next attempt, or the
\* end of the record (a row when the instruction is truthy) and the next one.
LLMAttempt ==
    /\ pc = "llm"
    /\ \E r \in Responses :
         LET fails   == AttemptFails(r)
             stats1  == IF fails /\ attempt = LastAttempt
                        THEN WithError(dataset_stats, idx, AttemptError(r))
                        ELSE dataset_stats
             instr   == IF fails THEN instruction ELSE IssueOf(r)
             again   == fails /\ attempt + 1 < Attempts
             new_row == [task_index |-> task_index,
                         instruction |-> instr.text,
                         scoring_points |-> scoring_points]
         IN  IF again
             THEN /\ response' = r
                  /\ attempt' = attempt + 1
                  /\ dataset_stats' = stats1
                  /\ UNCHANGED <<pc, idx, df, df_source, task_index, num, ans,
                                 scoring_points, input_specification,
                                 output_specification, instruction>>
             ELSE /\ pc' = "scan"
                  /\ idx' = idx + 1
                  /\ IF Truthy(instr)
                     THEN /\ df' = AppendRow(df, new_row)
                          /\ df_source' = Append(df_source, idx)
                          /\ dataset_stats' =
                               [stats1 EXCEPT !.queries_generated = @ + 1]
                     ELSE /\ dataset_stats' = stats1
                          /\ UNCHANGED <<df, df_source>>
                  /\ response' = r
                  /\ EndRecord
    /\ UNCHANGED <<globals, random_pos, meta_data, extra_spec,
                   half_hour_conflict_failure_flag>>

\* A mutant: the counts of the dataset take the place of the totals.
AddDistribution_Overwrite(total, dist) ==
    [t \in DOMAIN total \cup DOMAIN dist |->
        IF t \in DOMAIN dist THEN dist[t] ELSE total[t]]

\* self.generation_stats["task_distribution"] after the update loop
AddDistribution(total, dist) ==
    [t \in DOMAIN total \cup DOMAIN dist |->
        (IF t \in DOMAIN total THEN total[t] ELSE 0)
        + (IF t \in DOMAIN dist THEN dist[t] ELSE 0)]

\* The end of the scan: the table is saved, generate_queries_for_dataset
\* returns and generate_all_queries adds the dataset to the summary.
FinishDataset ==
    /\ pc = "scan"
    /\ idx = Len(meta_data)
    /\ written' = Append(written, [ds |-> ds, rows |-> df])
    /\ all_stats' = Append(all_stats, dataset_stats)
    /\ generation_stats' =
         [generation_stats EXCEPT
            !.datasets_processed = Append(@, dataset_stats.dataset_name),
            !.total_queries = @ + dataset_stats.queries_generated,
            !.successful_generations = @ + dataset_stats.queries_generated,
            !.failed_generations = @ + Len(dataset_stats.generation_errors),
            !.multi_failure_queries = @ + dataset_stats.multi_failure_queries,
            !.task_distribution =
                AddDistribution(@, dataset_stats.task_distribution)]
    /\ ds' = ds + 1
    /\ pc' = "loop"
    /\ DiscardFrame
    /\ UNCHANGED <<task_templates, random_stream, random_pos, exit_code,
                   result>>
    /\ UNCHANGED validation_results

\* main: the exit code after generate_all_queries has returned.
ExitCode(summary) ==
    IF summary.failed_generations = 0 THEN 0
    ELSE IF summary.successful_generations > 0 THEN 2
    ELSE 1

MainExit ==
    /\ pc = "loop"
    /\ ds > NumDatasets
    /\ exit_code' = ExitCode(generation_stats)
    /\ pc' = "exit"
    /\ UNCHANGED <<task_templates, random_stream, random_pos,
                   generation_stats, ds, all_stats, written, result,
                   meta_data, extra_spec, half_hour_conflict_failure_flag,
                   df, df_source, dataset_stats, idx>>
    /\ UNCHANGED locals
    /\ UNCHANGED validation_results

Next ==
    \/ SkipDataset
    \/ StartDataset
    \/ BeginRecord
    \/ LLMAttempt
    \/ FinishDataset
    \/ MainExit

Spec == Init /\ [][Next]_vars

\* ------------------------------------------ the functions called on their own

\* A generator and a ground-truth table, before any call.
InitPure ==
    /\ InitGenerator
    /\ pc = "pure"
    /\ ds = 1
    /\ task_templates = PureTemplates
    /\ random_stream = <<>>
    /\ meta_data \in Tables(PurePool, MaxRows)

CallConflictFlag ==
    /\ pc = "pure"
    /\ half_hour_conflict_failure_flag' =
         get_half_hour_conflict_failure_flag(meta_data)
    /\ pc' = "flagged"
    /\ UNCHANGED <<globals, random_pos, meta_data, extra_spec, df, df_source,
                   dataset_stats, idx>>
    /\ UNCHANGED locals

\* get_multi_response_dict on a row of the table.
CallMultiResponse ==
    /\ pc = "flagged"
    /\ \E i \in DOMAIN meta_data :
         LET m == get_multi_response_dict(meta_data[i], meta_data)
         IN  /\ idx' = i - 1
             /\ num' = m.num
             /\ ans' = m.ans
    /\ pc' = "aggregated"
    /\ UNCHANGED <<globals, random_pos, meta_data, extra_spec, df, df_source,
                   dataset_stats, half_hour_conflict_failure_flag,
                   task_index, scoring_points, input_specification,
                   output_specification, attempt, response, instruction>>

\* The multi-failure branch of the scoring points on the answers of the row.
CallMultiScoring ==
    /\ pc = "aggregated"
    /\ \E t \in DOMAIN task_templates :
         /\ task_index' = task_templates[t].id
         /\ result' = MultiScoring(task_templates[t].scoring_points,
                                   num, ans, 0, <<>>)
    /\ pc' = "scored"
    /\ UNCHANGED <<task_templates, random_stream, generation_stats, ds,
                   all_stats, written, exit_code, random_pos, meta_data,
                   extra_spec, df, df_source, dataset_stats, idx,
                   half_hour_conflict_failure_flag, num, ans, scoring_points,
                   input_specification, output_specification, attempt,
                   response, instruction>>
    /\ UNCHANGED validation_results

NextPure ==
    \/ CallConflictFlag
    \/ CallMultiResponse
    \/ CallMultiScoring

SpecPure == InitPure /\ [][NextPure]_vars

\* ------------------------------ the program on files and templates at fault

\* As Init, with a task specification file whose templates name fields the
\* renders do not supply.
InitFaults ==
    /\ InitGenerator
    /\ pc = "loop"
    /\ ds = 1
    /\ task_templates = FaultTemplates
    /\ random_stream \in [1..MaxRecords -> 1..Len(FaultTemplates)]
    /\ meta_data = <<>>

NextFaults ==
    \/ SkipDataset
    \/ StartDataset
    \/ StartMalformedDataset
    \/ BeginRecord
    \/ BeginRecordNaN
    \/ LLMAttempt
    \/ FinishDataset
    \/ MainExit

SpecFaults == InitFaults /\ [][NextFaults]_vars

\* ------------------------------------------------- the time functions alone

\* Timestamps of 1969, 1970 and 2020, of the daylight time of 1986, and the
\* seconds about the hours in which the clocks of 1986 were set forward and
\* back.
TimePool ==
    {-100, 100, 1799, 1800, 1600000000, 1600000200, 1600000300, 520000000,
     515527199, 515527200, 527011200, 527012000, 527014800}

\* A generator and two records, before any call.
InitTime ==
    /\ InitGenerator
    /\ pc = "time"
    /\ ds = 1
    /\ task_templates = PureTemplates
    /\ random_stream = <<>>
    /\ meta_data \in [1..2 -> {Rec(t, "c1", "r1") : t \in TimePool}]

\* timestamp2timeperiod on the timestamp of each of the two records.
CallTimestamp2Timeperiod ==
    /\ pc = "time"
    /\ result' = [ok |-> TRUE,
                  text |-> [i \in DOMAIN meta_data |->
                              timestamp2timeperiod(meta_data[i].timestamp)],
                  key |-> ""]
    /\ pc' = "period"
    /\ UNCHANGED <<task_templates, random_stream, generation_stats, ds,
                   all_stats, written, exit_code, random_pos, meta_data,
                   extra_spec, df, df_source, dataset_stats, idx,
                   half_hour_conflict_failure_flag>>
    /\ UNCHANGED locals
    /\ UNCHANGED validation_results

NextTime == CallTimestamp2Timeperiod

SpecTime == InitTime /\ [][NextTime]_vars

\* ------------------------------------------------ the API config validator
\* (src/steps/03_api_configuration/inputs/config_validator.py)

\* A string of the configuration as far as the validator looks at it: what
\* it starts with, how long the rest is and what characters the rest has
\* (alnum: letters and digits, dash: these and - and _, other).
KeyText(prefix, body_len, body) ==
    [kind |-> "text", prefix |-> prefix, body_len |-> body_len,
     body |-> body, var |-> ""]

\* The string that names an environment variable: a dollar sign and the
\* name in braces.
EnvRef(var) ==
    [kind |-> "envref", prefix |-> "", body_len |-> 0, body |-> "",
     var |-> var]

\* A value of the configuration that is a number, not a string.
KeyNumber ==
    [kind |-> "number", prefix |-> "", body_len |-> 0, body |-> "",
     var |-> ""]

\* The field is not in the configuration.
KeyAbsent ==
    [kind |-> "absent", prefix |-> "", body_len |-> 0, body |-> "",
     var |-> ""]

EmptyText == KeyText("", 0, "alnum")

\* sk-xxxxxxxxxxxxxx
Placeholder == KeyText("sk-", 14, "alnum")

\* len(api_key)
KeyLen(key) ==
    (IF key.prefix = "sk-" THEN 3 ELSE IF key.prefix = "sk-ant-" THEN 7 ELSE 0)
    + key.body_len

\* re.match(api_key_pattern, api_key) for the pattern of the provider
MatchesPattern(provider, key) ==
    IF provider = "OpenAI"
    THEN key.prefix = "sk-" /\ key.body = "alnum" /\ key.body_len >= 48
    ELSE /\ key.prefix = "sk-ant-"
         /\ key.body \in {"alnum", "dash"}
         /\ key.body_len >= 95

\* self.supported_providers: the models of each provider, a model name
\* written as the pieces the capability tests look for.
supported_providers ==
    [OpenAI |-> {<<"gpt-4", "o", "-2024-05-13">>, <<"gpt-4", "-turbo">>,
                 <<"gpt-4">>, <<"gpt-3.5-turbo">>},
     Anthropic |-> {<<"claude-3-sonnet", "-20240229">>,
                    <<"claude-3-haiku", "-20240307">>,
                    <<"claude-3-opus-20240229">>, <<"claude-2.1">>,
                    <<"claude-2">>}]

\* pieces in name, for strings written as sequences of pieces
Contains(name, pieces) ==
    \E i \in 0..(Len(name) - Len(pieces)) :
        \A j \in DOMAIN pieces : name[i + j] = pieces[j]

\* MODEL_PARAMETERS, RATE_LIMITS: absent, a mapping or a list.  The
\* temperature is in tenths.
Params(kind, temperature, max_tokens, timeout) ==
    [kind |-> kind, temperature |-> temperature, max_tokens |-> max_tokens,
     timeout |-> timeout]

Limits(kind, requests_per_minute, tokens_per_minute) ==
    [kind |-> kind, requests_per_minute |-> requests_per_minute,
     tokens_per_minute |-> tokens_per_minute]

\* The defaults of the get calls, lines 188, 195, 202, 229 and 235.
DefaultParams == Params("absent", 7, 4096, 60)

DefaultLimits == Limits("absent", 60, 40000)

\* What yaml.safe_load gives for a configuration file that is a mapping.
Config(source, model, api_key, params, log_responses, api_base, limits) ==
    [SOURCE |-> source, MODEL |-> model, API_KEY |-> api_key,
     MODEL_PARAMETERS |-> params, log_responses |-> log_responses,
     API_BASE |-> api_base, RATE_LIMITS |-> limits]

\* A line of the errors or of the warnings.
Message(msg, arg) == [msg |-> msg, arg |-> arg]

WithErrorLine(results, msg, arg) ==
    [results EXCEPT !.errors = Append(@, Message(msg, arg))]

WithWarning(results, msg, arg) ==
    [results EXCEPT !.warnings = Append(@, Message(msg, arg))]

\* The optional text of SOURCE as Python's string, the absent field as "".
TextOf(v) == IF v.none THEN "" ELSE v.text

\* os.environ: the variables that are set, each with its value.
IsSet(environ, var) == var \in DOMAIN environ

\* _validate_structure, lines 92-107.  Of the values only API_KEY is ever
\* given as the name of an environment variable.
_validate_structure(results, config, environ) ==
    LET r1 == IF config.SOURCE.none
              THEN WithErrorLine(results, "Missing required field", "SOURCE")
              ELSE results
        r2 == IF config.MODEL.none
              THEN WithErrorLine(r1, "Missing required field", "MODEL")
              ELSE r1
        r3 == IF config.API_KEY.kind = "absent"
              THEN WithErrorLine(r2, "Missing required field", "API_KEY")
              ELSE r2
    IN  IF config.API_KEY.kind = "envref"
           /\ ~IsSet(environ, config.API_KEY.var)
        THEN WithWarning(r3, "Environment variable not set for API_KEY",
                         config.API_KEY.var)
        ELSE r3

\* _validate_provider, lines 109-131.  The required fields of a provider
\* are the three of _validate_structure.
_validate_provider(results, config) ==
    LET provider == config.SOURCE
    IN  IF ~Truthy(provider)
        THEN WithErrorLine(results, "SOURCE (provider) not specified", "")
        ELSE IF provider.text \notin DOMAIN supported_providers
        THEN WithErrorLine(results, "Unsupported provider", provider.text)
        ELSE LET r0 == [results EXCEPT !.provider = provider]
                 r1 == IF config.MODEL.none
                       THEN WithErrorLine(r0, "Missing required field for",
                                          "MODEL")
                       ELSE r0
             IN  IF config.API_KEY.kind = "absent"
                 THEN WithErrorLine(r1, "Missing required field for",
                                    "API_KEY")
                 ELSE r1

\* _validate_model, lines 133-149
_validate_model(results, config) ==
    LET model == config.MODEL
        provider == config.SOURCE
    IN  IF model.none \/ model.text = <<>>
        THEN WithErrorLine(results, "MODEL not specified", "")
        ELSE LET r1 == IF /\ Truthy(provider)
                          /\ provider.text \in DOMAIN supported_providers
                          /\ model.text \notin
                               supported_providers[provider.text]
                       THEN WithWarning(results,
                                        "Model not in supported list for",
                                        provider.text)
                       ELSE results
             IN  [r1 EXCEPT !.model = model]

\* _validate_api_key, lines 151-181, for an API_KEY that is a string or
\* absent.
_validate_api_key(results, config, environ) ==
    LET given == IF config.API_KEY.kind = "absent" THEN EmptyText
                 ELSE config.API_KEY
        provider == TextOf(config.SOURCE)
        api_key == IF given.kind # "envref" THEN given
                   ELSE IF IsSet(environ, given.var) THEN environ[given.var]
                   ELSE EmptyText
    IN  IF given.kind = "envref" /\ api_key = EmptyText
        THEN WithErrorLine(results,
                           "API key environment variable is empty",
                           given.var)
        ELSE IF api_key = EmptyText \/ api_key = Placeholder
        THEN WithErrorLine(results,
                           "API key not configured or using placeholder", "")
        ELSE LET r1 == IF /\ ~config.SOURCE.none
                          /\ provider \in DOMAIN supported_providers
                          /\ ~MatchesPattern(provider, api_key)
                       THEN WithWarning(results,
                                        "API key format may be invalid for",
                                        provider)
                       ELSE results
             IN  IF KeyLen(api_key) > 10
                 THEN [r1 EXCEPT !.security_check = "passed"]
                 ELSE WithErrorLine(r1, "API key appears to be too short", "")

\* _validate_parameters, lines 183-206, for MODEL_PARAMETERS that is a
\* mapping or absent.
_validate_parameters(results, config) ==
    LET params == config.MODEL_PARAMETERS
        r1 == IF params.temperature < 0 \/ params.temperature > 20
              THEN WithWarning(results,
                               "Temperature should be between 0 and 2", "")
              ELSE results
        r2 == IF params.max_tokens < 1
              THEN WithWarning(r1, "max_tokens should be a positive integer",
                               "")
              ELSE r1
    IN  IF params.timeout < 1
        THEN WithWarning(r2,
                         "timeout should be a positive integer (seconds)", "")
        ELSE r2

\* _validate_security, lines 208-223.  API_BASE is given by what it starts
\* with, "" for none.
_validate_security(results, config) ==
    LET r1 == IF config.log_responses
              THEN WithWarning(results,
                     "Response logging is enabled - may log sensitive data",
                     "")
              ELSE results
    IN  IF config.API_BASE # "" /\ config.API_BASE # "https://"
        THEN WithWarning(r1, "API base URL should use HTTPS for security",
                         "")
        ELSE r1

\* _validate_rate_limits, lines 225-239, for RATE_LIMITS that is a mapping
\* or absent.
_validate_rate_limits(results, config) ==
    LET rate_limits == config.RATE_LIMITS
        r1 == IF rate_limits.requests_per_minute < 1
              THEN WithWarning(results,
                     "requests_per_minute should be a positive integer", "")
              ELSE results
    IN  IF rate_limits.tokens_per_minute < 1
        THEN WithWarning(r1,
               "tokens_per_minute should be a positive integer", "")
        ELSE r1

\* _detect_capabilities, lines 241-284.  The costs are in hundred
\* thousandths of a dollar.
_detect_capabilities(results, config) ==
    LET model == IF config.MODEL.none THEN <<>> ELSE config.MODEL.text
        Capabilities(context_length, calling, vision, input, output) ==
            [context_length |-> context_length,
             supports_function_calling |-> calling,
             supports_vision |-> vision,
             estimated_cost_per_1k_input_tokens |-> input,
             estimated_cost_per_1k_output_tokens |-> output]
        capabilities ==
            IF Contains(model, <<"gpt-4", "o">>)
            THEN Capabilities(128000, TRUE, TRUE, 250, 1000)
            ELSE IF Contains(model, <<"gpt-4">>)
            THEN Capabilities(32768, TRUE, FALSE, 1000, 3000)
            ELSE IF Contains(model, <<"claude-3-sonnet">>)
            THEN Capabilities(200000, TRUE, FALSE, 300, 1500)
            ELSE IF Contains(model, <<"claude-3-haiku">>)
            THEN Capabilities(200000, FALSE, FALSE, 25, 125)
            ELSE Capabilities(8192, FALSE, FALSE, 100, 200)
    IN  [results EXCEPT !.capabilities = capabilities]

\* The except clause of validate_config, lines 86-88.
ValidationFailed(results, exception) ==
    [WithErrorLine(results, "Configuration validation error", exception)
        EXCEPT !.validation_status = "failed"]

\* The file at a path: whether it can be opened, whether its YAML is a
\* mapping (an empty file loads as None), and the mapping.
File(exists, mapping, config) ==
    [exists |-> exists, mapping |-> mapping, config |-> config]

\* validate_config, lines 50-90: the results after the call.  A step that
\* raises does so before it adds a line, and what the steps before it added
\* stays.
validate_config(results, file, environ) ==
    IF ~file.exists
    THEN ValidationFailed(results, "No such file or directory")
    ELSE IF ~file.mapping
    THEN ValidationFailed(results,
                          "argument of type NoneType is not iterable")
    ELSE
    LET config == file.config
        r1 == _validate_structure(results, config, environ)
        r2 == _validate_provider(r1, config)
        r3 == _validate_model(r2, config)
    IN  IF config.API_KEY.kind = "number"
        THEN ValidationFailed(r3, "int object has no attribute startswith")
        ELSE
    LET r4 == _validate_api_key(r3, config, environ)
    IN  IF config.MODEL_PARAMETERS.kind = "list"
        THEN ValidationFailed(r4, "list object has no attribute get")
        ELSE
    LET r5 == _validate_parameters(r4, config)
        r6 == _validate_security(r5, config)
    IN  IF config.RATE_LIMITS.kind = "list"
        THEN ValidationFailed(r6, "list object has no attribute get")
        ELSE
    LET r7 == _validate_rate_limits(r6, config)
        r8 == _detect_capabilities(r7, config)
    IN  [r8 EXCEPT !.validation_status =
             IF r8.errors = <<>> THEN "success" ELSE "failed"]

\* create_validated_config, lines 286-303: what it returns.  An empty file
\* is dumped as it is.
create_validated_config(template, output_writable) ==
    template.exists /\ output_writable

\* ---------------------------------------------------- the validator's inputs

OpenAIKey == KeyText("sk-", 48, "alnum")

AnthropicKey == KeyText("sk-ant-", 95, "dash")

\* A configuration without complaint, one for each provider.
GoodOpenAI ==
    Config(Some("OpenAI"), Some(<<"gpt-4", "o", "-2024-05-13">>), OpenAIKey,
           DefaultParams, FALSE, "", DefaultLimits)

GoodAnthropic ==
    Config(Some("Anthropic"), Some(<<"claude-3-haiku", "-20240307">>),
           AnthropicKey, Params("dict", 0, 1024, 30), FALSE, "https://",
           Limits("dict", 50, 40000))

\* Configurations with each kind of complaint: warnings only (the key is in
\* the environment), nothing at all, a provider and a key that are refused,
\* the placeholder, the key of the other provider, and values of the wrong
\* type.
ConfigPool ==
    { GoodOpenAI,
      GoodAnthropic,
      Config(Some("OpenAI"), Some(<<"my-model">>), EnvRef("OPENAI_API_KEY"),
             Params("dict", 25, 0, 0), TRUE, "http://",
             Limits("dict", 0, 0)),
      Config(NoneValue, NoneValue, KeyAbsent, DefaultParams, FALSE, "",
             DefaultLimits),
      Config(Some("Other"), Some(<<"gpt-4">>), KeyText("sk-", 4, "alnum"),
             DefaultParams, FALSE, "", DefaultLimits),
      Config(Some("OpenAI"), Some(<<"claude-3-sonnet", "-20240229">>),
             Placeholder, DefaultParams, FALSE, "", DefaultLimits),
      Config(Some("OpenAI"), Some(<<"gpt-4">>), AnthropicKey, DefaultParams,
             FALSE, "", DefaultLimits),
      Config(Some("OpenAI"), Some(<<"gpt-4", "-turbo">>), KeyNumber,
             DefaultParams, FALSE, "", DefaultLimits),
      Config(Some("Anthropic"), Some(<<>>), AnthropicKey,
             Params("list", 7, 4096, 60), FALSE, "", DefaultLimits),
      Config(Some("OpenAI"), Some(<<"gpt-3.5-turbo">>), OpenAIKey,
             DefaultParams, FALSE, "", Limits("list", 60, 40000)) }

\* What can be at the template path: nothing, an empty file, or one of the
\* configurations.
TemplateFiles ==
    {File(FALSE, FALSE, GoodOpenAI), File(TRUE, FALSE, GoodOpenAI)}
    \cup {File(TRUE, TRUE, config) : config \in ConfigPool}

\* os.environ: without the variable, with it empty, with a key in it.
Environments ==
    {<<>>, [OPENAI_API_KEY |-> EmptyText], [OPENAI_API_KEY |-> OpenAIKey]}

\* The errors and warnings a validator may hold and still be called.
MaxMessages == 2

Messages == Len(validation_results.errors) + Len(validation_results.warnings)

\* ----------------------------------------------------- the validator program

\* A validator after __init__, lines 15-48; main has not assigned
\* config_created.  There is no generator.
InitValidator ==
    /\ validation_results =
         [validation_status |-> "pending", provider |-> NoneValue,
          model |-> NoneValue, errors |-> <<>>, warnings |-> <<>>,
          capabilities |-> <<>>, security_check |-> "passed",
          config_created |-> <<>>]
    /\ pc = "validator"
    /\ exit_code = -1
    /\ result = [ok |-> TRUE, text |-> <<>>, key |-> ""]
    /\ task_templates = <<>>
    /\ random_stream = <<>>
    /\ random_pos = 0
    /\ generation_stats = <<>>
    /\ ds = 1
    /\ all_stats = <<>>
    /\ written = <<>>
    /\ meta_data = <<>>
    /\ FrameDiscarded

\* validator.validate_config(config_path), with what is at the path and in
\* the environment at the time of the call.
ValidateConfig ==
    /\ pc = "validator"
    /\ Messages < MaxMessages
    /\ \E file \in TemplateFiles, environ \in Environments :
         validation_results' =
             validate_config(validation_results, file, environ)
    /\ UNCHANGED <<pc, exit_code, result, task_templates, random_stream,
                   random_pos, generation_stats, ds, all_stats, written,
                   meta_data, extra_spec, df, df_source, dataset_stats, idx,
                   half_hour_conflict_failure_flag>>
    /\ UNCHANGED locals

\* validator.create_validated_config(template_path, output_path), lines
\* 286-303, with what is at the template path and whether the output path
\* can be opened for writing: True, or False and one more line of errors.
CreateValidatedConfig ==
    /\ pc = "validator"
    /\ Messages < MaxMessages
    /\ \E template \in TemplateFiles, output_writable \in BOOLEAN :
         LET success == create_validated_config(template, output_writable)
         IN  /\ result' = [ok |-> success, text |-> <<>>,
                           key |-> "config_created"]
             /\ validation_results' =
                  IF success THEN validation_results
                  ELSE WithErrorLine(validation_results,
                                     "Error creating config",
                                     IF template.exists
                                     THEN "output" ELSE "template")
    /\ UNCHANGED <<pc, exit_code, task_templates, random_stream,
                   random_pos, generation_stats, ds, all_stats, written,
                   meta_data, extra_spec, df, df_source, dataset_stats, idx,
                   half_hour_conflict_failure_flag>>
    /\ UNCHANGED locals

\* main, lines 337-346, after its calls of validate_config and of
\* create_validated_config: results is the validator's own dictionary.
ValidatorExit ==
    /\ pc = "validator"
    /\ validation_results.validation_status # "pending"
    /\ result.key = "config_created"
    /\ validation_results' =
         [validation_results EXCEPT !.config_created = <<result.ok>>]
    /\ exit_code' =
         IF validation_results.validation_status = "success" /\ result.ok
         THEN 0 ELSE 1
    /\ pc' = "exit"
    /\ UNCHANGED <<result, task_templates, random_stream,
                   random_pos, generation_stats, ds, all_stats, written,
                   meta_data, extra_spec, df, df_source, dataset_stats, idx,
                   half_hour_conflict_failure_flag>>
    /\ UNCHANGED locals

NextValidator ==
    \/ ValidateConfig
    \/ CreateValidatedConfig
    \/ ValidatorExit

SpecValidator == InitValidator /\ [][NextValidator]_vars

\* ------------------------------------------------------------------ claims

\* Records of the table whose timestamp is in the window of timestamp.
WindowCount(table, timestamp) ==
    Cardinality({j \in DOMAIN table :
                    Window(table[j].timestamp) = Window(timestamp)})

Timestamps(table) == {table[j].timestamp : j \in DOMAIN table}

FlagIs(timestamp, value) ==
    /\ timestamp \in DOMAIN half_hour_conflict_failure_flag
    /\ half_hour_conflict_failure_flag[timestamp] = value

\* C1: in the flag map get_half_hour_conflict_failure_flag returns, every
\* timestamp whose 30-minute window holds two or more records of the table
\* (duplicates and windows of three or more included) is mapped to true, the
\* first record of the window in sort order too.
C1_SharedWindowFlagged ==
    pc = "flagged" =>
        \A t \in Timestamps(meta_data) :
            WindowCount(meta_data, t) >= 2 => FlagIs(t, TRUE)

\* A window after window 0 with three records, its first one flagged.
C1_Witness ==
    /\ pc = "flagged"
    /\ \E t \in Timestamps(meta_data) :
         /\ Window(t) > 0
         /\ WindowCount(meta_data, t) >= 3
         /\ \A u \in Timestamps(meta_data) : Window(u) = Window(t) => t <= u
         /\ FlagIs(t, TRUE)

\* C2: for non-negative timestamps the flag map equals the window count
\* reference: a timestamp is mapped to true exactly when its window holds two
\* or more records, so a timestamp alone in its window is mapped to false.
C2_FlagEqualsWindowCount ==
    (pc = "flagged" /\ \A t \in Timestamps(meta_data) : t >= 0) =>
        \A t \in Timestamps(meta_data) :
            FlagIs(t, WindowCount(meta_data, t) >= 2)

\* C3: when the scan takes the multi-failure branch for a record, the count
\* get_multi_response_dict returned for it is at least 2.
C3_MultiBranchHasTwo ==
    (pc = "llm" /\ half_hour_conflict_failure_flag[meta_data[idx + 1].timestamp])
        => num >= 2

\* The positions of the table in the window of the row at position i.
Members(table, i) ==
    {j \in DOMAIN table :
        Window(table[j].timestamp) = Window(table[i].timestamp)}

\* The k-th smallest element of a set of numbers.
Kth(S, k) == CHOOSE j \in S : Cardinality({m \in S : m < j}) = k - 1

\* C4: get_multi_response_dict(row, records) returns exactly the records of
\* the window of row, row included, in the order of the record sequence, as
\* three lists of length n whose entries i are of the same record.
C4_MultiAnswerSet ==
    pc = "aggregated" =>
        LET S == Members(meta_data, idx + 1)
        IN  /\ num = Cardinality(S)
            /\ Len(ans.datetime) = num
            /\ Len(ans.component) = num
            /\ Len(ans.reason) = num
            /\ \A k \in 1..Cardinality(S) :
                 LET r == meta_data[Kth(S, k)]
                 IN  /\ ans.datetime[k] = timestamp2datetime(r.timestamp)
                     /\ ans.component[k] = r.component
                     /\ ans.reason[k] = r.reason

\* Two records of one window that the table holds in descending timestamp
\* order, both returned.
C4_Witness ==
    /\ pc = "aggregated"
    /\ num >= 2
    /\ \E i, j \in Members(meta_data, idx + 1) :
         /\ i < j
         /\ meta_data[i].timestamp > meta_data[j].timestamp
         /\ meta_data[i].component # meta_data[j].component

\* The single-failure render of the whole template list for member i of the
\* answers, with the index label of member i in place of "only".
SingleRenderOfMember(templates, time_period, answers, i) ==
    SingleLoop(templates,
               [idx         |-> IdxLabel(i),
                time_period |-> time_period,
                datetime    |-> answers.datetime[i + 1],
                component   |-> Txt(answers.component[i + 1]),
                reason      |-> Txt(answers.reason[i + 1])],
               <<>>)

\* C5: for every task template and every answer set of n members, the
\* multi-failure scoring text is the concatenation, for i = 0..n-1, of the
\* single-failure render of the template list applied to member i with the
\* index label of i: the same substitution keys, the same separators.
C5_MultiIsConcatOfSingle ==
    pc = "scored" =>
        LET templates == TemplateOf(task_index).scoring_points
            period    == timestamp2timeperiod(meta_data[idx + 1].timestamp)
            renders   == [k \in 1..num |->
                            SingleRenderOfMember(templates, period, ans, k - 1)]
        IN  /\ result.ok = (\A k \in 1..num : renders[k].ok)
            /\ result.ok =>
                 result.text = Flatten([k \in 1..num |-> renders[k].text])

\* The values of a record that are ground truth.
GroundTruth(table) ==
    UNION {{Txt(table[j].component), Txt(table[j].reason),
            timestamp2datetime(table[j].timestamp),
            timestamp2timeperiod(table[j].timestamp)} : j \in DOMAIN table}

\* The replacement fields of a list of templates.
RECURSIVE FieldCount(_)
FieldCount(templates) ==
    IF templates = <<>> THEN 0
    ELSE Cardinality({i \in DOMAIN Head(templates) :
                         Head(templates)[i].k = "key"})
         + FieldCount(Tail(templates))

Occurrences(text, tok) == Cardinality({i \in DOMAIN text : text[i] = tok})

\* C6: for every record, single-failure or multi-failure, the output block is
\* the output templates of the task with **UNKNOWN** in the place of every
\* field; no component, reason or datetime of any record is in it.
C6_OutputBlockUnknownOnly ==
    pc = "llm" =>
        /\ \A i \in DOMAIN output_specification :
             output_specification[i] \notin GroundTruth(meta_data)
        /\ Occurrences(output_specification, UNKNOWN)
             = FieldCount(TemplateOf(task_index).output)
        /\ Occurrences(output_specification, Txt("- "))
             = Len(TemplateOf(task_index).output)

\* A multi-failure record of two answers whose output block asks for the
\* component and the reason.
C6_Witness ==
    /\ pc = "llm"
    /\ num >= 2
    /\ task_index = "task_2"
    /\ Occurrences(output_specification, UNKNOWN) = 2

Errors == dataset_stats.generation_errors

\* C7: for each record the collaborator is called at most 3 times and not
\* again after the first attempt that succeeds; a failed attempt before the
\* third adds nothing; when the third attempt fails too (an exception of the
\* collaborator, a response that does not parse, a response without the issue
\* field, all alike) the record adds no row and exactly one entry to
\* generation_errors, and the scan goes on to the next record.
C7_RetryPolicy ==
    [][pc = "llm" =>
        /\ attempt + 1 <= 3
        /\ ~AttemptFails(response') => (pc' = "scan" /\ idx' = idx + 1)
        /\ (AttemptFails(response') /\ attempt + 1 < 3) =>
             /\ pc' = "llm"
             /\ attempt' = attempt + 1
             /\ idx' = idx
             /\ df' = df
             /\ Errors' = Errors
        /\ (AttemptFails(response') /\ attempt + 1 = 3) =>
             /\ pc' = "scan"
             /\ idx' = idx + 1
             /\ df' = df
             /\ Len(Errors') = Len(Errors) + 1
             /\ Errors'[Len(Errors')].record = idx
             /\ SubSeq(Errors', 1, Len(Errors)) = Errors]_vars

\* The second record of a table has failed three times for want of the issue
\* field, after a first record that gave a row.
C7_Witness ==
    /\ pc = "scan"
    /\ idx = 2
    /\ response = "no_issue"
    /\ Len(df) = 1
    /\ Len(Errors) = 1
    /\ Errors[1].record = 1

\* C8: every scanned record has given a row of the output table or an entry
\* of generation_errors, whatever the collaborator answered (an issue that is
\* empty or null included).
C8_RowOrError ==
    pc = "scan" => Len(df) + Len(Errors) = idx

\* C9: the run is reported failed (exit code 1) when a record was attempted
\* and none gave a query, and partial (exit code 2) when a record gave a
\* query and another did not; never success (exit code 0) in either case.
C9_OverallResult ==
    pc = "exit" =>
        LET attempted == SumRecords(all_stats)
            queries   == generation_stats.total_queries
        IN  /\ (attempted > 0 /\ queries = 0) => exit_code = 1
            /\ (queries > 0 /\ queries < attempted) => exit_code = 2

IsSorted(seq) == \A i, j \in DOMAIN seq : i < j => seq[i] < seq[j]

WritesOf(log, d) == {i \in DOMAIN log : log[i].ds = d}

\* C10: during the scan of a dataset the output table only grows by
\* appending, at most one row per record; nothing is saved before the last
\* record; at the end the table holds one row for each record that gave an
\* instruction, in the order of the ground-truth table, and it is saved
\* exactly once.
C10_AppendOnlySavedOnce ==
    [][/\ (pc \in {"scan", "llm"} /\ pc' \in {"scan", "llm"}) =>
            /\ written' = written
            /\ \/ df' = df
               \/ /\ Len(df') = Len(df) + 1
                  /\ SubSeq(df', 1, Len(df)) = df
                  /\ idx' = idx + 1
                  /\ df'[Len(df')].scoring_points = scoring_points
                  /\ df'[Len(df')].task_index = task_index
       /\ written' # written =>
            /\ pc = "scan"
            /\ idx = Len(meta_data)
            /\ written' = Append(written, [ds |-> ds, rows |-> df])
            /\ WritesOf(written, ds) = {}
            /\ Len(df) = dataset_stats.queries_generated
            /\ Len(df_source) = Len(df)
            /\ IsSorted(df_source)
            /\ \A k \in DOMAIN df_source : df_source[k] < Len(meta_data)
       /\ (pc = "scan" /\ pc' = "loop") => Len(written') = Len(written) + 1
      ]_vars

\* A table of two rows that were given by two records of different tasks has
\* been saved.
C10_Witness ==
    /\ pc = "loop"
    /\ written # <<>>
    /\ LET rows == written[Len(written)].rows
       IN  /\ Len(rows) = 2
           /\ rows[1].task_index # rows[2].task_index

\* Seconds from the start of day 0 to the wall-clock fields f.
WallSeconds(f) == f[1] * 86400 + f[2] * 3600 + f[3] * 60 + f[4]

\* The wall-clock fields of an instant at UTC+8.
FieldsAtUtc8(t) ==
    LET local == t + UtcOffset
        sod   == local % 86400
    IN  <<local \div 86400, sod \div 3600, (sod % 3600) \div 60, sod % 60>>

\* C14: for every timestamp t, the window_start timestamp2timeperiod renders
\* is the UTC+8 wall-clock time of t with the minute cut down to 0 or 30 and
\* the seconds set to 0, window_end is 30 minutes after window_start, and
\* window_start <= t < window_end.
C14_PeriodIsUtc8HalfHour ==
    pc = "period" =>
        \A i \in DOMAIN meta_data :
            LET t      == meta_data[i].timestamp
                wall   == FieldsAtUtc8(t)
                start  == SubSeq(result.text[i].d, 1, 4)
                end    == SubSeq(result.text[i].d, 5, 8)
            IN  /\ start = <<wall[1], wall[2], wall[3] - (wall[3] % 30), 0>>
                /\ WallSeconds(end) = WallSeconds(start) + 1800
                /\ WallSeconds(start) - UtcOffset <= t
                /\ t < WallSeconds(end) - UtcOffset

\* C19: for all timestamps a and b, a and b are of one epoch window (a div
\* 1800 = b div 1800) exactly when timestamp2timeperiod renders the same
\* period for them, so the period given in a multi-failure query covers
\* every record of its answer set.
C19_WindowAgreesWithPeriod ==
    pc = "period" =>
        LET a == meta_data[1].timestamp
            b == meta_data[2].timestamp
        IN  (Window(a) = Window(b)) <=> (result.text[1] = result.text[2])

\* The names of the replacement fields of a list of templates.
Fields(templates) ==
    UNION {{templates[k][j].s : j \in {m \in DOMAIN templates[k] :
                                          templates[k][m].k = "key"}} :
           k \in DOMAIN templates}

\* The task the scan draws for the record it is at.
NextTask == TemplateOf(full_task_ID_list[random_stream[random_pos + 1]])

\* A template of the task drawn for the record names a field that the call
\* rendering it does not supply.
TemplateNamesUnsuppliedKey ==
    LET flagged == half_hour_conflict_failure_flag[meta_data[idx + 1].timestamp]
        scoring_keys == IF flagged
                        THEN {"idx", "datetime", "reason", "component"}
                        ELSE {"idx", "time_period", "datetime", "component",
                              "reason"}
    IN  \/ ~(Fields(NextTask.scoring_points) \subseteq scoring_keys)
        \/ ~(Fields(NextTask.input) \subseteq {"num", "time_period"})
        \/ ~(Fields(NextTask.output) \subseteq
                {"time_period", "datetime", "component", "reason"})

\* C11: when a scoring_points, input or output template of the task chosen
\* for a record names a substitution key the render does not supply, the
\* record is given up before any call of the collaborator: it adds no row
\* and exactly one entry to generation_errors, the scan goes on with the next
\* record, and the table is still saved at the end of the scan.
C11_TemplateErrorAbandonsRecord ==
    [][/\ (/\ pc = "scan"
           /\ idx < Len(meta_data)
           /\ meta_data[idx + 1].timestamp # NaN
           /\ TemplateNamesUnsuppliedKey) =>
            /\ pc' = "scan"
            /\ idx' = idx + 1
            /\ attempt' = 0
            /\ response' = ""
            /\ df' = df
            /\ written' = written
            /\ Len(Errors') = Len(Errors) + 1
            /\ SubSeq(Errors', 1, Len(Errors)) = Errors
            /\ Errors'[Len(Errors')].record = idx
            /\ Errors'[Len(Errors')].error.type = "KeyError"
       /\ (/\ pc = "scan"
           /\ idx = Len(meta_data)
           /\ \E k \in DOMAIN Errors : Errors[k].error.type = "KeyError") =>
            /\ pc' = "loop"
            /\ written' = Append(written, [ds |-> ds, rows |-> df])
      ]_vars

\* A table has been saved with the row of its second record, after its
\* first record was given up for an output template that names num.
C11_Witness ==
    /\ pc = "loop"
    /\ written # <<>>
    /\ Len(written[Len(written)].rows) = 1
    /\ all_stats[Len(all_stats)].generation_errors
         = <<ErrorMsg(0, KeyError("num"))>>
    /\ all_stats[Len(all_stats)].total_records = 2

\* C12: a timestamp cell of the ground-truth table that is not a number
\* makes the whole dataset run fail in the conflict detection, before any
\* record is processed: no record of such a table is scanned and no entry of
\* generation_errors is made for it.
C12_MalformedTimestampFailsRun ==
    /\ pc \in {"scan", "llm"} =>
         \A i \in DOMAIN meta_data : meta_data[i].timestamp # NaN
    /\ \A k \in DOMAIN Errors : Errors[k].error.type # "ValueError"

\* C13: the bucket index timestamp div 1800 is the floor quotient and does
\* not decrease as the timestamp grows (for all timestamps a <= b of the
\* table, negative ones included, a div 1800 <= b div 1800); the detector
\* and the aggregator, which each compute it, put a record in the same
\* window: a record the aggregator finds company for is one the detector
\* flagged.
C13_BucketMonotonic ==
    pc = "aggregated" =>
        /\ \A a, b \in Timestamps(meta_data) :
             a <= b => Window(a) <= Window(b)
        /\ \A t \in Timestamps(meta_data) :
             /\ Window(t) * 1800 <= t
             /\ t < (Window(t) + 1) * 1800
        /\ num >= 2 => FlagIs(meta_data[idx + 1].timestamp, TRUE)

\* A table with a timestamp before 1970 and two timestamps of a later
\* window, one of them of the row the aggregator was called for.
C13_Witness ==
    /\ pc = "aggregated"
    /\ num >= 2
    /\ meta_data[idx + 1].timestamp > 0
    /\ \E a \in Timestamps(meta_data) :
         /\ a < 0
         /\ Window(a) < Window(meta_data[idx + 1].timestamp)

\* C15: the input block has one bullet for each template of the input list
\* of the task, in list order, rendered with the time_period of the record
\* and with num the number of answers (1 for a single-failure record, the
\* size of the answer set for a multi-failure record); when the dataset has
\* an extra_spec one more bullet with it follows, and none otherwise.
C15_InputBlock ==
    pc = "llm" =>
        LET row       == meta_data[idx + 1]
            templates == TemplateOf(task_index).input
            n  == IF half_hour_conflict_failure_flag[row.timestamp]
                  THEN Cardinality(Members(meta_data, idx + 1))
                  ELSE 1
            kwargs == [num |-> Num(n),
                       time_period |-> timestamp2timeperiod(row.timestamp)]
            Bullet(k) ==
                <<Txt("- ")>>
                \o [j \in DOMAIN templates[k] |->
                       IF templates[k][j].k = "key"
                       THEN kwargs[templates[k][j].s]
                       ELSE Txt(templates[k][j].s)]
                \o <<NL>>
            extra == IF dataset_configs[ds].extra_spec = NoneValue THEN <<>>
                     ELSE <<Txt("- "),
                            Txt(dataset_configs[ds].extra_spec.text), NL>>
        IN  /\ num = n
            /\ input_specification =
                 <<Fence, Txt("known"), NL>>
                 \o Flatten([k \in DOMAIN templates |-> Bullet(k)])
                 \o extra \o <<NL, Fence>>

\* A multi-failure record of two answers in a dataset with an extra_spec,
\* with an input template that names num.
C15_Witness ==
    /\ pc = "llm"
    /\ num = 2
    /\ task_index = "task_2"
    /\ extra_spec = Some("system: cloudbed-2")
    /\ Occurrences(input_specification, Num(2)) = 1
    /\ Occurrences(input_specification, Txt("- ")) = 2

\* Where the render of template k starts in a text that holds, for each
\* template of the list in order, its pieces and a line separator.
RECURSIVE Offset(_, _)
Offset(templates, k) ==
    IF k = 1 THEN 0
    ELSE Offset(templates, k - 1) + Len(templates[k - 1]) + 1

\* C16: in the single-failure case, for every record and every
\* scoring_points template, the rendered scoring text has the component of
\* the record where the template names component and the reason of the
\* record where it names reason: the values of that record, as they are.
C16_SingleScoringVerbatim ==
    (pc = "llm" /\ ~half_hour_conflict_failure_flag[meta_data[idx + 1].timestamp])
        =>
        LET row       == meta_data[idx + 1]
            templates == TemplateOf(task_index).scoring_points
        IN  /\ Len(scoring_points) = Offset(templates, Len(templates) + 1)
            /\ \A k \in DOMAIN templates : \A j \in DOMAIN templates[k] :
                 LET piece == scoring_points[Offset(templates, k) + j]
                 IN  /\ templates[k][j] = Fld("component") =>
                          piece = Txt(row.component)
                     /\ templates[k][j] = Fld("reason") =>
                          piece = Txt(row.reason)

\* The second record of a table, alone in its window, with scoring points
\* that name the component and the reason, after a first record of another
\* component and reason.
C16_Witness ==
    /\ pc = "llm"
    /\ idx = 1
    /\ ~half_hour_conflict_failure_flag[meta_data[2].timestamp]
    /\ task_index = "task_2"
    /\ meta_data[1].component # meta_data[2].component
    /\ meta_data[1].reason # meta_data[2].reason
    /\ Occurrences(scoring_points, Txt(meta_data[2].component)) = 1
    /\ Occurrences(scoring_points, Txt(meta_data[2].reason)) = 1

\* C17: the keys of the flag map get_half_hour_conflict_failure_flag returns
\* are the timestamps of the table, all of them and nothing else, for every
\* table, the empty one included; the lookup of the timestamp of a row of
\* the table finds a key.
C17_FlagKeysAreTimestamps ==
    pc = "flagged" =>
        /\ DOMAIN half_hour_conflict_failure_flag = Timestamps(meta_data)
        /\ \A i \in DOMAIN meta_data :
             meta_data[i].timestamp \in DOMAIN half_hour_conflict_failure_flag

\* A table of three timestamps whose first in sort order is of window 0 or
\* before, so that the detector went back from the first position to the
\* last.
C17_Witness ==
    /\ pc = "flagged"
    /\ Cardinality(Timestamps(meta_data)) = 3
    /\ \E t \in Timestamps(meta_data) :
         /\ Window(t) <= 0
         /\ \A u \in Timestamps(meta_data) : t <= u
    /\ Cardinality(DOMAIN half_hour_conflict_failure_flag) = 3

\* Records the run has scanned in the datasets before this one.
ScannedBefore == SumRecords(all_stats)

\* The task that the seeded draws give the record at position i of the
\* dataset being scanned.
DrawnFor(i) == full_task_ID_list[random_stream[ScannedBefore + i + 1]]

\* C18: for a record sequence, task templates, seed and collaborator
\* responses, the scan is a function of them: the task of the record at
\* position k is the k-th draw of the seeded generator whatever became of
\* the records before it, the rows are in record order each with the task
\* drawn for its record, and the task counts are those of the draws.
C18_Deterministic ==
    pc \in {"scan", "llm"} =>
        LET drawn == IF pc = "llm" THEN idx + 1 ELSE idx
        IN  /\ random_pos = ScannedBefore + drawn
            /\ pc = "llm" => task_index = DrawnFor(idx)
            /\ IsSorted(df_source)
            /\ \A k \in DOMAIN df :
                 df[k].task_index = DrawnFor(df_source[k])
            /\ \A t \in DOMAIN dataset_stats.task_distribution :
                 dataset_stats.task_distribution[t] =
                     Cardinality({i \in 0..(drawn - 1) : DrawnFor(i) = t})

\* The second record of a table is at the collaborator with the task of the
\* second draw, after a first record of another task that gave an error and
\* no row.
C18_Witness ==
    /\ pc = "llm"
    /\ idx = 1
    /\ df = <<>>
    /\ Len(Errors) = 1
    /\ random_stream[1] # random_stream[2]
    /\ task_index = full_task_ID_list[random_stream[2]]

\* C20: each scanned record gives at most one row of the output table and at
\* most one entry of generation_errors, and never both; queries_generated is
\* the number of rows of the table, and after every record queries_generated
\* + len(generation_errors) <= the number of records scanned so far.
C20_OneOutcomePerRecord ==
    pc \in {"scan", "llm"} =>
        /\ dataset_stats.queries_generated = Len(df)
        /\ Len(df_source) = Len(df)
        /\ \A j, k \in DOMAIN df_source : j < k => df_source[j] < df_source[k]
        /\ \A j, k \in DOMAIN Errors :
             j < k => Errors[j].record < Errors[k].record
        /\ \A j \in DOMAIN df_source : \A k \in DOMAIN Errors :
             df_source[j] # Errors[k].record
        /\ \A j \in DOMAIN df_source : df_source[j] < idx
        /\ \A k \in DOMAIN Errors : Errors[k].record < idx
        /\ pc = "scan" =>
             dataset_stats.queries_generated + Len(Errors) <= idx

\* Two records are scanned: the first gave an entry of generation_errors
\* after three failed attempts, the second a row.
C20_Witness ==
    /\ pc = "scan"
    /\ idx = 2
    /\ df_source = <<1>>
    /\ Len(Errors) = 1
    /\ Errors[1].record = 0
    /\ Errors[1].error.type = "JSONDecodeError"
    /\ dataset_stats.queries_generated = 1

\* The sum of queries_generated over the datasets of stats.
RECURSIVE SumQueries(_)
SumQueries(stats) ==
    IF stats = <<>> THEN 0
    ELSE Head(stats).queries_generated + SumQueries(Tail(stats))

\* The sum of the lengths of generation_errors over the datasets of stats.
RECURSIVE SumErrors(_)
SumErrors(stats) ==
    IF stats = <<>> THEN 0
    ELSE Len(Head(stats).generation_errors) + SumErrors(Tail(stats))

\* The sum of multi_failure_queries over the datasets of stats.
RECURSIVE SumMulti(_)
SumMulti(stats) ==
    IF stats = <<>> THEN 0
    ELSE Head(stats).multi_failure_queries + SumMulti(Tail(stats))

\* The sum of the counts of task t over the datasets of stats.
RECURSIVE TaskSum(_, _)
TaskSum(stats, t) ==
    IF stats = <<>> THEN 0
    ELSE (IF t \in DOMAIN Head(stats).task_distribution
          THEN Head(stats).task_distribution[t] ELSE 0)
         + TaskSum(Tail(stats), t)

\* C21: after generate_all_queries on a fresh generator, total_queries =
\* successful_generations = the sum of queries_generated over the datasets
\* processed, failed_generations = the sum of the lengths of their
\* generation_errors, multi_failure_queries and every task_distribution
\* entry are the sums of the values of the datasets, and a dataset whose
\* record file is missing is not in datasets_processed and adds to no
\* counter.
C21_SummaryIsSumOfDatasets ==
    [][/\ pc' = "exit" =>
            /\ generation_stats'.total_queries = SumQueries(all_stats')
            /\ generation_stats'.successful_generations
                 = SumQueries(all_stats')
            /\ generation_stats'.failed_generations
                 = SumErrors(all_stats')
            /\ generation_stats'.multi_failure_queries
                 = SumMulti(all_stats')
            /\ generation_stats'.datasets_processed
                 = [i \in DOMAIN all_stats' |-> all_stats'[i].dataset_name]
            /\ \A t \in DOMAIN generation_stats'.task_distribution :
                 generation_stats'.task_distribution[t] = TaskSum(all_stats', t)
            /\ all_stats' # <<>> =>
                 DOMAIN generation_stats'.task_distribution
                     = DOMAIN all_stats'[1].task_distribution
       /\ (pc = "loop" /\ pc' = "loop" /\ ds' = ds + 1) =>
            /\ generation_stats' = generation_stats
            /\ all_stats' = all_stats
            /\ \A i \in DOMAIN generation_stats.datasets_processed :
                 generation_stats.datasets_processed[i]
                     # dataset_configs[ds].name
      ]_vars

\* The run is over: the first dataset had no record file, two later ones
\* were processed with one record each, both of one task, one record gave a
\* query and the other an error.
C21_Witness ==
    /\ pc = "exit"
    /\ generation_stats.datasets_processed = <<"Bank", "Market/cloudbed-2">>
    /\ generation_stats.total_queries = 1
    /\ generation_stats.failed_generations = 1
    /\ \E t \in DOMAIN generation_stats.task_distribution :
         /\ generation_stats.task_distribution[t] = 2
         /\ all_stats[1].task_distribution[t] = 1

\* C22: for one APIConfigValidator, in every state after validate_config
\* has returned, later calls of create_validated_config and of
\* validate_config included, validation_status is "success" if and only if
\* the errors list is empty.
C22_SuccessIffNoErrors ==
    validation_results.validation_status # "pending" =>
        (validation_results.validation_status = "success"
            <=> validation_results.errors = <<>>)

====
